---------------------------- MODULE Spec2Model ----------------------------
(***************************************************************************)
(* A model of raven (src/raven/__main__.py): the FileUploadHandler request *)
(* handler (restrict_access, do_GET, do_POST), the filename helpers        *)
(* sanitize_filename and prevent_clobber, and the socketserver.TCPServer   *)
(* accept loop main() starts.                                              *)
(*                                                                         *)
(* Text and bytes are sequences of one-character tokens.  The tokens "CR", *)
(* "LF" and "DQ" stand for carriage return, line feed and the double       *)
(* quote; "xC3", "xA9" and "xFF" are the bytes 0xC3, 0xA9 and 0xFF;        *)
(* "U+00E9" and "U+0663" are the code points e-acute (a non-ASCII letter)  *)
(* and ARABIC-INDIC DIGIT THREE (a non-ASCII digit).                       *)
(***************************************************************************)
EXTENDS Integers, Sequences, FiniteSets, TLC

VARIABLES
    allowed_ip,        \* self.allowed_ip: the --allowed-ip text; <<>> when not given
    organize_uploads,  \* self.organize_uploads
    fs,                \* the upload tree: files (path -> bytes) and dirs (paths)
    uploads,           \* the number of successful uploads so far
    last,              \* the most recent call and everything it did
    sent,              \* per connection: how far the client has got
    serving,           \* the connection the single server thread is handling
    hpc,               \* where that handler is
    answered           \* the connections that have received a response

vars == <<allowed_ip, organize_uploads, fs, uploads, last, sent, serving, hpc, answered>>

---------------------------------------------------------------------------
(* Bounds of the model                                                     *)

MaxLen == 4        \* longest raw filename given to sanitize_filename alone
MaxEntries == 2    \* longest allow-list explored exhaustively
MaxUploads == 2    \* successful uploads followed in one behaviour
MaxExisting == 10  \* most numbered candidates already present for prevent_clobber

---------------------------------------------------------------------------
(* Sequences: the str / bytes methods the source uses                      *)

MatchAt(s, sub, i) ==
    /\ i >= 1
    /\ i + Len(sub) - 1 <= Len(s)
    /\ \A k \in 1..Len(sub) : s[i + k - 1] = sub[k]

\* s.find(sub, i) with 1-based positions; 0 when sub does not occur
Find(s, sub, i) ==
    LET hits == {j \in i..(Len(s) - Len(sub) + 1) : MatchAt(s, sub, j)}
    IN  IF hits = {} THEN 0 ELSE CHOOSE j \in hits : \A k \in hits : j <= k

\* sub in s
Contains(s, sub) == Find(s, sub, 1) # 0

\* s.startswith(prefix)
StartsWith(s, prefix) == MatchAt(s, prefix, 1)

RECURSIVE Split(_, _)
\* s.split(sep): every non-overlapping occurrence, left to right
Split(s, sep) ==
    LET i == Find(s, sep, 1)
    IN  IF i = 0 THEN <<s>>
        ELSE <<SubSeq(s, 1, i - 1)>> \o Split(SubSeq(s, i + Len(sep), Len(s)), sep)

\* s.split(sep, 1)
SplitOnce(s, sep) ==
    LET i == Find(s, sep, 1)
    IN  IF i = 0 THEN <<s>>
        ELSE <<SubSeq(s, 1, i - 1), SubSeq(s, i + Len(sep), Len(s))>>

RECURSIVE Join(_, _)
\* sep.join(parts)
Join(parts, sep) ==
    IF Len(parts) = 0 THEN <<>>
    ELSE IF Len(parts) = 1 THEN parts[1]
    ELSE parts[1] \o sep \o Join(Tail(parts), sep)

RECURSIVE SeqsUpTo(_, _)
\* all sequences over S of length at most n
SeqsUpTo(S, n) ==
    IF n = 0 THEN {<<>>}
    ELSE LET shorter == SeqsUpTo(S, n - 1)
         IN  shorter \cup {Append(s, c) : s \in {t \in shorter : Len(t) = n - 1}, c \in S}

---------------------------------------------------------------------------
(* sanitize_filename                                                       *)

AsciiLetters == {"a", "b", "c", "d", "e", "f", "g", "h", "i", "j", "k", "l", "m",
                 "n", "o", "p", "q", "r", "s", "t", "u", "v", "w", "x", "y", "z",
                 "C", "D", "T", "X", "Y", "Z"}
AsciiDigits == {"0", "1", "2", "3", "4", "5", "6", "7", "8", "9"}
NonAsciiWord == {"U+00E9", "U+0663"}

\* \w of a str pattern: Unicode letters and digits, and the underscore
IsWordCharSpace(c) == c \in AsciiLetters \cup AsciiDigits \cup NonAsciiWord \cup {"_", " "}
IsWordChar(c) == c \in AsciiLetters \cup AsciiDigits \cup NonAsciiWord \cup {"_"}

\* the class [^\w.-] of line 162
Disallowed(c) == ~ (IsWordChar(c) \/ c = "." \/ c = "-")

RECURSIVE re_sub_first(_)
re_sub_first(s) ==
    IF s = <<>> THEN <<>>
    ELSE IF Disallowed(Head(s)) THEN <<"_">> \o Tail(s)
    ELSE <<Head(s)>> \o re_sub_first(Tail(s))
\* re.sub(r'[^\w.-]', '_', s)
re_sub(s) == [i \in 1..Len(s) |-> IF Disallowed(s[i]) THEN "_" ELSE s[i]]

RECURSIVE NormComps(_, _, _)
\* the loop of posixpath.normpath over the '/'-separated components
NormComps(comps, new_comps, initial_slashes) ==
    IF comps = <<>> THEN new_comps
    ELSE LET comp == Head(comps)
             n == Len(new_comps)
         IN  IF comp = <<>> \/ comp = <<".">>
             THEN NormComps(Tail(comps), new_comps, initial_slashes)
             ELSE IF \/ comp # <<".", ".">>
                     \/ (initial_slashes = 0 /\ n = 0)
                     \/ (n > 0 /\ new_comps[n] = <<".", ".">>)
             THEN NormComps(Tail(comps), Append(new_comps, comp), initial_slashes)
             ELSE IF n > 0
             THEN NormComps(Tail(comps), SubSeq(new_comps, 1, n - 1), initial_slashes)
             ELSE NormComps(Tail(comps), new_comps, initial_slashes)

\* os.path.normpath (posixpath), which never touches the filesystem
normpath(path) ==
    IF path = <<>> THEN <<".">>
    ELSE LET initial_slashes ==
                 IF ~ StartsWith(path, <<"/">>) THEN 0
                 ELSE IF StartsWith(path, <<"/", "/">>) /\ ~ StartsWith(path, <<"/", "/", "/">>)
                 THEN 2 ELSE 1
             comps == NormComps(Split(path, <<"/">>), <<>>, initial_slashes)
             joined == [i \in 1..initial_slashes |-> "/"] \o Join(comps, <<"/">>)
         IN  IF joined = <<>> THEN <<".">> ELSE joined

sanitize_filename(filename) == re_sub(normpath(filename))

---------------------------------------------------------------------------
(* ipaddress: ip_address and ip_network(strict=False) as restrict_access   *)
(* uses them.  An address is [version, groups]; version 0 stands for the   *)
(* ValueError the library raises on text it cannot interpret.              *)

Digits == <<"0", "1", "2", "3", "4", "5", "6", "7", "8", "9">>
IsDigit(c) == \E i \in 1..Len(Digits) : Digits[i] = c
DigitVal(c) == (CHOOSE i \in 1..Len(Digits) : Digits[i] = c) - 1

RECURSIVE ParseInt(_)
\* int(s) of a non-empty run of ASCII digits
ParseInt(s) ==
    IF s = <<>> THEN 0
    ELSE ParseInt(SubSeq(s, 1, Len(s) - 1)) * Len(Digits) + DigitVal(s[Len(s)])

AllDigits(s) == s # <<>> /\ \A i \in 1..Len(s) : IsDigit(s[i])

ValueError == [version |-> 0, groups |-> <<>>]

\* IPv4Address._parse_octet: 1 to 3 digits, no leading zero, at most 255
OctetOK(o) ==
    /\ AllDigits(o)
    /\ Len(o) <= 3
    /\ (Len(o) > 1 => o[1] # "0")
    /\ ParseInt(o) <= 255

\* IPv4Address(text)
ParseV4(text) ==
    LET octets == Split(text, <<".">>)
    IN  IF Len(octets) = 4 /\ \A i \in 1..4 : OctetOK(octets[i])
        THEN [version |-> 4, groups |-> [i \in 1..4 |-> ParseInt(octets[i])]]
        ELSE ValueError

\* IPv6Address(text), for the IPv6 texts of EntryPool
ParseV6(text) ==
    CASE text = <<":", ":", "1">> ->
             [version |-> 6, groups |-> <<0, 0, 0, 0, 0, 0, 0, 1>>]
      [] text = <<"f", "e", "8", "0", ":", ":">> ->
             [version |-> 6, groups |-> <<65152, 0, 0, 0, 0, 0, 0, 0>>]
      [] OTHER -> ValueError

\* ip_address(text): IPv4 first, then IPv6, else ValueError
ip_address(text) ==
    LET v4 == ParseV4(text)
    IN  IF v4.version # 0 THEN v4 ELSE ParseV6(text)

GroupWidth(version) == IF version = 4 THEN 8 ELSE 16
MaxPrefixLen(version) == IF version = 4 THEN 32 ELSE 128

\* ip_network(text, strict=False): [version, groups, prefix]; host bits are
\* masked by the containment test.  A netmask written as a dotted quad after
\* the '/' is not interpreted (EntryPool holds none).
ip_network(text) ==
    LET halves == Split(text, <<"/">>)
        addr == ip_address(halves[1])
    IN  IF Len(halves) > 2 \/ addr.version = 0 THEN ValueError @@ [prefix |-> 0]
        ELSE IF Len(halves) = 1
        THEN addr @@ [prefix |-> MaxPrefixLen(addr.version)]
        ELSE IF AllDigits(halves[2]) /\ ParseInt(halves[2]) <= MaxPrefixLen(addr.version)
        THEN addr @@ [prefix |-> ParseInt(halves[2])]
        ELSE ValueError @@ [prefix |-> 0]

\* bit i (1 = most significant) of an address
BitAt(a, i) ==
    LET w == GroupWidth(a.version)
        g == a.groups[((i - 1) \div w) + 1]
        k == w - 1 - ((i - 1) % w)
    IN  (g \div (2 ^ k)) % 2

\* client_ip in network (_BaseNetwork.__contains__)
InNetwork(a, network) ==
    /\ a.version = network.version
    /\ \A i \in 1..network.prefix : BitAt(a, i) = BitAt(network, i)

IsSpace(c) == c \in {" ", "CR", "LF"}

RECURSIVE lstrip(_)
lstrip(s) == IF s # <<>> /\ IsSpace(Head(s)) THEN lstrip(Tail(s)) ELSE s

RECURSIVE rstrip(_)
rstrip(s) ==
    IF s # <<>> /\ IsSpace(s[Len(s)]) THEN rstrip(SubSeq(s, 1, Len(s) - 1)) ELSE s

\* ip.strip()
strip(s) == rstrip(lstrip(s))

RECURSIVE AccessLoop(_, _)
\* the for loop of restrict_access (lines 33-44): "True" on the first match,
\* "False" when the list is exhausted, "ValueError" when ip_address(ip) of
\* line 43, which no try protects, raises
AccessLoop(client_ip, entries) ==
    IF entries = <<>> THEN "False"
    ELSE LET ip == strip(Head(entries))
             network == ip_network(ip)
             address == ip_address(ip)
         IN  IF Contains(ip, <<"/">>)
             THEN IF network.version # 0 /\ InNetwork(client_ip, network)
                  THEN "True"
                  ELSE AccessLoop(client_ip, Tail(entries))
             ELSE IF address.version = 0 THEN "ValueError"
             ELSE IF client_ip = address THEN "True"
             ELSE AccessLoop(client_ip, Tail(entries))

\* restrict_access (lines 23-50): its outcome and the statuses it sends.
\* allowed is self.allowed_ip; <<>> stands for None and for ''.
restrict_access(client, allowed) ==
    IF allowed = <<>> THEN [outcome |-> "True", statuses |-> <<>>]
    ELSE LET r == AccessLoop(ip_address(client), Split(allowed, <<",">>))
         IN  [outcome |-> r, statuses |-> IF r = "False" THEN <<403>> ELSE <<>>]

---------------------------------------------------------------------------
(* The filesystem under the upload folder, and prevent_clobber              *)

UploadFolder == <<"/", "u", "p">>

\* os.path.join(a, b) (posixpath)
os_path_join(a, b) ==
    IF StartsWith(b, <<"/">>) THEN b
    ELSE IF a = <<>> \/ a[Len(a)] = "/" THEN a \o b
    ELSE a \o <<"/">> \o b

\* os.path.exists(path): a file, a directory of the tree, or the root above it;
\* the kernel resolves '.' and '..' as normpath does (the tree has no symlinks)
os_path_exists(fsys, path) ==
    LET n == normpath(path)
    IN  n \in DOMAIN fsys.files \/ n \in fsys.dirs \/ n = <<"/">>

RFind(s, c) ==
    LET hits == {i \in 1..Len(s) : s[i] = c}
    IN  IF hits = {} THEN 0 ELSE CHOOSE i \in hits : \A j \in hits : j <= i

\* os.path.splitext (posixpath): leading dots of the last component are no extension
splitext(p) ==
    LET sepIndex == RFind(p, "/")
        dotIndex == RFind(p, ".")
    IN  IF dotIndex > sepIndex /\ \E k \in (sepIndex + 1)..(dotIndex - 1) : p[k] # "."
        THEN <<SubSeq(p, 1, dotIndex - 1), SubSeq(p, dotIndex, Len(p))>>
        ELSE <<p, <<>>>>

RECURSIVE ToDecimal(_)
\* str(n) of a natural number
ToDecimal(n) ==
    IF n < Len(Digits) THEN <<Digits[n + 1]>>
    ELSE ToDecimal(n \div Len(Digits)) \o <<Digits[(n % Len(Digits)) + 1]>>

\* f"{base_name}_{counter}{file_extension}" of line 173
NumberedName(filename, counter) ==
    splitext(filename)[1] \o <<"_">> \o ToDecimal(counter) \o splitext(filename)[2]

RECURSIVE ClobberLoop(_, _, _, _, _)
\* the while loop of prevent_clobber (lines 171-175)
ClobberLoop(fsys, upload_folder, filename, file_path, counter) ==
    IF os_path_exists(fsys, file_path)
    THEN ClobberLoop(fsys, upload_folder, filename,
                     os_path_join(upload_folder, NumberedName(filename, counter)),
                     counter + 1)
    ELSE file_path

prevent_clobber_overwrite(fsys, upload_folder, filename) ==
    os_path_join(upload_folder, filename)

prevent_clobber_once(fsys, upload_folder, filename) ==
    IF os_path_exists(fsys, os_path_join(upload_folder, filename))
    THEN os_path_join(upload_folder, NumberedName(filename, 1))
    ELSE os_path_join(upload_folder, filename)

\* prevent_clobber (lines 167-177)
prevent_clobber(fsys, upload_folder, filename) ==
    ClobberLoop(fsys, upload_folder, filename, os_path_join(upload_folder, filename), 1)

---------------------------------------------------------------------------
(* The multipart parsing of do_POST (lines 92-106)                         *)

CRLF == <<"CR", "LF">>
FilenameMarker == <<"f", "i", "l", "e", "n", "a", "m", "e", "=", "DQ">>
MultipartPrefix == <<"m", "u", "l", "t", "i", "p", "a", "r", "t", "/", "f", "o", "r", "m", "-", "d", "a", "t", "a">>

\* bytes.decode() (UTF-8): [ok, text]; ok is FALSE for UnicodeDecodeError.
\* 0xC3 0xA9 is the one two-byte sequence of the model; a lead byte without
\* its continuation, a stray continuation and 0xFF are invalid.
decode(b) ==
    LET valid == \A i \in 1..Len(b) :
                    /\ b[i] = "xC3" => (i < Len(b) /\ b[i + 1] = "xA9")
                    /\ b[i] = "xA9" => (i > 1 /\ b[i - 1] = "xC3")
                    /\ b[i] # "xFF"
        NotContinuation(c) == c # "xA9"
    IN  IF valid
        THEN [ok |-> TRUE,
              text |-> SelectSeq([i \in 1..Len(b) |-> IF b[i] = "xC3" THEN "U+00E9" ELSE b[i]],
                                 NotContinuation)]
        ELSE [ok |-> FALSE, text |-> <<>>]

\* re.search(r'filename="(.+)"', text): [found, group]. The leftmost match,
\* its group greedy; '.' matches every character but the line feed.
filename_search(text) ==
    LET m == Len(FilenameMarker)
        Closes(i, j) == /\ j > i + m
                        /\ text[j] = "DQ"
                        /\ \A k \in (i + m)..(j - 1) : text[k] # "LF"
        starts == {i \in 1..Len(text) :
                      MatchAt(text, FilenameMarker, i) /\ \E j \in 1..Len(text) : Closes(i, j)}
    IN  IF starts = {} THEN [found |-> FALSE, group |-> <<>>]
        ELSE LET i == CHOOSE x \in starts : \A y \in starts : x <= y
                 ends == {j \in 1..Len(text) : Closes(i, j)}
                 j == CHOOSE x \in ends : \A y \in ends : y <= x
             IN  [found |-> TRUE, group |-> SubSeq(text, i + m, j - 1)]

\* self.headers[name]: <<>> and present = FALSE stand for None
Header(req, name) ==
    IF name \in DOMAIN req.headers
    THEN [present |-> TRUE, value |-> req.headers[name]]
    ELSE [present |-> FALSE, value |-> <<>>]

\* self.rfile.read(content_length), the client having sent its whole body
rfile_read(body, n) == SubSeq(body, 1, IF n < Len(body) THEN n ELSE Len(body))

Raise(exc, read) ==
    [stage |-> "raise", exc |-> exc, body_read |-> read,
     filename |-> <<>>, sanitized |-> <<>>, data |-> <<>>]

\* data of `headers, data = part.split(b'\r\n\r\n', 1)` (line 104)
PartData(part) == SplitOnce(part, CRLF \o CRLF)[2]

\* lines 92-109 for the first part that holds filename=": what the try block
\* extracts before it touches the filesystem, or the exception it meets
ExtractPart(part, read) ==
    IF Len(SplitOnce(part, CRLF \o CRLF)) < 2 THEN Raise("ValueError", read)
    ELSE LET content_disposition == decode(SplitOnce(part, CRLF \o CRLF)[1])
         IN  IF ~ content_disposition.ok THEN Raise("UnicodeDecodeError", read)
             ELSE LET found == filename_search(content_disposition.text)
                  IN  IF ~ found.found THEN Raise("AttributeError", read)
                      ELSE [stage |-> "file", exc |-> "none", body_read |-> read,
                            filename |-> found.group,
                            sanitized |-> sanitize_filename(found.group),
                            data |-> PartData(part)]

\* lines 92-102: Content-Length, the body, the boundary, the split, the search
\* for the first part holding filename="
Extract(req) ==
    LET content_length == Header(req, "Content-Length")
        content_type == Header(req, "Content-Type").value
    IN  IF ~ content_length.present THEN Raise("TypeError", FALSE)
        ELSE IF ~ AllDigits(strip(content_length.value)) THEN Raise("ValueError", FALSE)
        ELSE LET form_data == rfile_read(req.body, ParseInt(strip(content_length.value)))
                 semi == Split(content_type, <<";", " ">>)
             IN  IF Len(semi) < 2 \/ Len(Split(semi[2], <<"=">>)) < 2
                 THEN Raise("IndexError", TRUE)
                 ELSE LET boundary == Split(semi[2], <<"=">>)[2]
                          parts == Split(form_data, <<"-", "-">> \o boundary)
                          hits == {i \in 1..Len(parts) : Contains(parts[i], FilenameMarker)}
                      IN  IF hits = {}
                          THEN [stage |-> "nofile", exc |-> "none", body_read |-> TRUE,
                                filename |-> <<>>, sanitized |-> <<>>, data |-> <<>>]
                          ELSE ExtractPart(parts[CHOOSE i \in hits : \A j \in hits : i <= j], TRUE)

---------------------------------------------------------------------------
(* The requests the model sends                                            *)

Client1 == <<"1", "0", ".", "1", ".", "2", ".", "3">>
Client2 == <<"1", "9", "2", ".", "1", "6", "8", ".", "1", ".", "5">>
Client3 == <<"1", "9", "2", ".", "1", "6", "8", ".", "1", ".", "6">>
Clients == {Client1, Client2, Client3}

Root == <<"/">>
OtherPath == <<"/", "x">>

CtMultipart == MultipartPrefix \o <<";", " ", "b", "o", "u", "n", "d", "a", "r", "y", "=", "X", "Y", "Z">>
CtTextPlain == <<"t", "e", "x", "t", "/", "p", "l", "a", "i", "n">>
Delimiter == <<"-", "-", "X", "Y", "Z">>

DispositionFile == <<"C", "o", "n", "t", "e", "n", "t", "-", "D", "i", "s", "p", "o", "s", "i", "t", "i", "o", "n", ":", " ", "f", "o", "r", "m", "-", "d", "a", "t", "a", ";", " ", "n", "a", "m", "e", "=", "DQ", "f", "i", "l", "e", "DQ", ";", " ", "f", "i", "l", "e", "n", "a", "m", "e", "=", "DQ">>
DispositionNote == <<"C", "o", "n", "t", "e", "n", "t", "-", "D", "i", "s", "p", "o", "s", "i", "t", "i", "o", "n", ":", " ", "f", "o", "r", "m", "-", "d", "a", "t", "a", ";", " ", "n", "a", "m", "e", "=", "DQ", "n", "o", "t", "e", "DQ">>
PartContentType == <<"C", "o", "n", "t", "e", "n", "t", "-", "T", "y", "p", "e", ":", " ", "t", "e", "x", "t", "/", "p", "l", "a", "i", "n">>

\* one file part as a browser writes it: headers, blank line, content, CRLF
FilePart(name_bytes, content) ==
    CRLF \o DispositionFile \o name_bytes \o <<"DQ">> \o CRLF \o PartContentType
         \o CRLF \o CRLF \o content \o CRLF

\* a plain form field
FieldPart(value) == CRLF \o DispositionNote \o CRLF \o CRLF \o value \o CRLF

\* a file part whose header block is not closed by a blank line
UnclosedPart(name_bytes) == CRLF \o DispositionFile \o name_bytes \o <<"DQ">> \o CRLF

RECURSIVE Body(_)
\* the parts, each after a delimiter line, then the closing delimiter
Body(parts) ==
    IF parts = <<>> THEN Delimiter \o <<"-", "-">> \o CRLF
    ELSE Delimiter \o Head(parts) \o Body(Tail(parts))

NoHeaders == [h \in {} |-> <<>>]

Get(client, path) ==
    [method |-> "GET", path |-> path, client |-> client, headers |-> NoHeaders,
     body |-> <<>>, env |-> "ok", well_formed |-> FALSE, F |-> <<>>, C |-> <<>>]

\* a POST of body with the given Content-Type and a correct Content-Length
Post(client, path, content_type, body, env) ==
    [method |-> "POST", path |-> path, client |-> client,
     headers |-> ("Content-Type" :> content_type) @@ ("Content-Length" :> ToDecimal(Len(body))),
     body |-> body, env |-> env, well_formed |-> FALSE, F |-> <<>>, C |-> <<>>]

\* a well-formed upload of one file named F (ASCII) with content C
Upload(client, F, C, env) ==
    [Post(client, Root, CtMultipart, Body(<<FilePart(F, C)>>), env)
        EXCEPT !.well_formed = TRUE, !.F = F, !.C = C]

Without(req, name) ==
    [req EXCEPT !.headers = [h \in DOMAIN req.headers \ {name} |-> req.headers[h]],
                !.well_formed = FALSE]

ReportTxt == <<"r", "e", "p", "o", "r", "t", ".", "t", "x", "t">>
DupTxt == <<"d", "u", "p", ".", "t", "x", "t">>
Hello == <<"h", "e", "l", "l", "o">>
World == <<"w", "o", "r", "l", "d">>

Requests ==
       ("get_c1" :> Get(Client1, Root))
    @@ ("get_c2" :> Get(Client2, Root))
    @@ ("get_c3" :> Get(Client3, Root))
    @@ ("get_other" :> Get(Client1, OtherPath))
    @@ ("report" :> Upload(Client1, ReportTxt, Hello, "ok"))
    @@ ("dup_hello" :> Upload(Client3, DupTxt, Hello, "ok"))
    @@ ("dup_world" :> Upload(Client3, DupTxt, World, "ok"))
    @@ ("dotdot" :> Upload(Client3, <<".", ".">>, <<"x">>, "ok"))
    @@ ("inner_crlf" :> Upload(Client3, <<"n", ".", "t">>, <<"a", "CR", "LF", "b">>, "ok"))
    @@ ("mixed" :>
           Post(Client3, Root, CtMultipart,
                Body(<<FieldPart(<<"h", "i">>),
                       FilePart(<<"xC3", "xA9", ".", "t">>, Hello),
                       FilePart(<<"g", ".", "t">>, World)>>), "ok"))
    @@ ("post_other" :> Post(Client3, OtherPath, CtMultipart, Body(<<FilePart(ReportTxt, Hello)>>), "ok"))
    @@ ("no_content_type" :> Without(Upload(Client3, ReportTxt, Hello, "ok"), "Content-Type"))
    @@ ("text_plain" :> Post(Client3, Root, CtTextPlain, Hello, "ok"))
    @@ ("no_boundary" :> Post(Client3, Root, MultipartPrefix, Body(<<FilePart(ReportTxt, Hello)>>), "ok"))
    @@ ("no_content_length" :> Without(Upload(Client3, ReportTxt, Hello, "ok"), "Content-Length"))
    @@ ("no_file_part" :> Post(Client3, Root, CtMultipart, Body(<<FieldPart(<<"h", "i">>)>>), "ok"))
    @@ ("unclosed_headers" :> Post(Client3, Root, CtMultipart, Body(<<UnclosedPart(ReportTxt)>>), "ok"))
    @@ ("no_file_chosen" :> Post(Client3, Root, CtMultipart, Body(<<FilePart(<<>>, <<>>)>>), "ok"))
    @@ ("bad_utf8" :> Post(Client3, Root, CtMultipart, Body(<<FilePart(<<"a", "xFF">>, Hello)>>), "ok"))
    @@ ("mkdir_fails" :> Upload(Client3, ReportTxt, Hello, "mkdir_fails"))
    @@ ("write_fails" :> Upload(Client3, ReportTxt, Hello, "write_fails"))

ReqNames == DOMAIN Requests

\* what lines 92-109 make of each request: it depends on the request alone
Extracted == [n \in ReqNames |-> Extract(Requests[n])]

---------------------------------------------------------------------------
(* The handler: do_GET and do_POST                                         *)

NoUpload == [saved |-> <<>>, filename |-> <<>>, sanitized |-> <<>>, folder |-> <<>>, data |-> <<>>]

\* what a handler call did: the outcome of restrict_access ("n/a" when it was
\* not called), the statuses sent, the exception that left the handler
\* (raised) or was caught and printed (caught), whether it read the body,
\* whether it changed the upload tree, and the file it wrote
Done(op, req_name, access, statuses, raised, caught, read, up) ==
    [op |-> op, req |-> req_name, access |-> access,
     statuses |-> statuses, raised |-> raised, caught |-> caught,
     body_read |-> read, fs_touched |-> FALSE] @@ up

\* an exception inside lines 112-126: [ok, exc, fsys, up]
Failed(exc, fsys) == [ok |-> FALSE, exc |-> exc, fsys |-> fsys, up |-> NoUpload]

\* lines 125-126: open(file_path, 'wb') and f.write(data); target is the file
\* the kernel resolves file_path to
Write(req, ex, fsys, upload_folder, file_path, target) ==
    IF target \in fsys.dirs \/ target = <<"/">> THEN Failed("IsADirectoryError", fsys)
    ELSE IF req.env = "write_fails" THEN Failed("PermissionError", fsys)
    ELSE [ok |-> TRUE, exc |-> "none",
          fsys |-> [fsys EXCEPT !.files =
                       [q \in DOMAIN fsys.files \cup {target} |->
                           IF q = target THEN ex.data ELSE fsys.files[q]]],
          up |-> [saved |-> file_path, filename |-> ex.filename, sanitized |-> ex.sanitized,
                  folder |-> upload_folder, data |-> ex.data]]

\* lines 122-126: prevent_clobber, then the write
Save(req, ex, fsys, upload_folder) ==
    LET file_path == prevent_clobber(fsys, upload_folder, ex.sanitized)
    IN  Write(req, ex, fsys, upload_folder, file_path, normpath(file_path))

\* line 116: os.makedirs(upload_folder, exist_ok=True), then the rest
Makedirs(req, ex, fsys, upload_folder) ==
    IF upload_folder \in fsys.dirs THEN Save(req, ex, fsys, upload_folder)
    ELSE IF upload_folder \in DOMAIN fsys.files THEN Failed("FileExistsError", fsys)
    ELSE IF req.env = "mkdir_fails" THEN Failed("PermissionError", fsys)
    ELSE Save(req, ex, [fsys EXCEPT !.dirs = @ \cup {upload_folder}], upload_folder)

\* lines 112-126: the destination folder, makedirs, prevent_clobber, the write.
\* [ok, exc, fsys, up]
Store(req, ex, fsys, organize) ==
    IF organize THEN Makedirs(req, ex, fsys, os_path_join(UploadFolder, req.client))
    ELSE Save(req, ex, fsys, UploadFolder)

\* lines 54-78 of do_GET, access being what restrict_access returned
GetOutcome(n, req, access) ==
    IF req.path # Root
    THEN Done("GET", n, "n/a", <<>>, "none", "none", FALSE, NoUpload)
    ELSE IF access.outcome = "ValueError"
    THEN Done("GET", n, "ValueError", <<>>, "ValueError", "none", FALSE, NoUpload)
    ELSE IF access.outcome = "False"
    THEN Done("GET", n, "False", access.statuses, "none", "none", FALSE, NoUpload)
    ELSE Done("GET", n, "True", <<200>>, "none", "none", FALSE, NoUpload)

\* do_GET (lines 53-78)
do_GET(n) ==
    /\ Requests[n].method = "GET"
    /\ last' = GetOutcome(n, Requests[n], restrict_access(Requests[n].client, allowed_ip))
    /\ UNCHANGED <<allowed_ip, organize_uploads, fs, uploads, sent, serving, hpc, answered>>

\* the handler returns without having touched the tree
Same(d, fsys) == [done |-> d, fsys |-> fsys]

\* lines 129-156 after the try block ran into the filesystem: 200 or 400
Stored(n, fsys, st) ==
    [done |-> [Done("POST", n, "True", IF st.ok THEN <<200>> ELSE <<400>>, "none", st.exc,
                    TRUE, st.up)
                  EXCEPT !.fs_touched = (st.fsys # fsys)],
     fsys |-> st.fsys]

\* lines 82-156 of do_POST: [done, fsys]
PostOutcome(n, fsys, organize, req, access, content_type, ex) ==
    IF req.path # Root
    THEN Same(Done("POST", n, "n/a", <<>>, "none", "none", FALSE, NoUpload), fsys)
    ELSE IF access.outcome = "ValueError"
    THEN Same(Done("POST", n, "ValueError", <<>>, "ValueError", "none", FALSE, NoUpload), fsys)
    ELSE IF access.outcome = "False"
    THEN Same(Done("POST", n, "False", access.statuses, "none", "none", FALSE, NoUpload), fsys)
    ELSE IF ~ content_type.present
    THEN Same(Done("POST", n, "True", <<>>, "AttributeError", "none", FALSE, NoUpload), fsys)
    ELSE IF ~ StartsWith(content_type.value, MultipartPrefix)
    THEN Same(Done("POST", n, "True", <<400>>, "none", "none", FALSE, NoUpload), fsys)
    ELSE IF ex.stage = "raise"
    THEN Same(Done("POST", n, "True", <<400>>, "none", ex.exc, ex.body_read, NoUpload), fsys)
    ELSE IF ex.stage = "nofile"
    THEN Same(Done("POST", n, "True", <<400>>, "none", "none", TRUE, NoUpload), fsys)
    ELSE Stored(n, fsys, Store(req, ex, fsys, organize))

PostFor(n, fsys, allowed, organize, req) ==
    PostOutcome(n, fsys, organize, req, restrict_access(req.client, allowed),
                Header(req, "Content-Type"), Extracted[n])

\* do_POST (lines 81-156) on the tree fsys: [done, fsys]
PostResult(n, fsys, allowed, organize) == PostFor(n, fsys, allowed, organize, Requests[n])

\* the handler's effects on the state
Commit(r) ==
    /\ r.done.statuses = <<200>> => uploads < MaxUploads
    /\ last' = r.done
    /\ fs' = r.fsys
    /\ uploads' = IF r.done.statuses = <<200>> THEN uploads + 1 ELSE uploads
    /\ UNCHANGED <<allowed_ip, organize_uploads, sent, serving, hpc, answered>>

do_POST(n) ==
    /\ Requests[n].method = "POST"
    /\ Commit(PostResult(n, fs, allowed_ip, organize_uploads))

---------------------------------------------------------------------------
(* Spec: the handler serving one request after another                     *)

Conns == {"k1", "k2", "k3"}

\* no connection is open: the state of the server thread outside ConcSpec
Idle ==
    /\ sent = [k \in Conns |-> "none"]
    /\ serving = "nobody"
    /\ hpc = "accept"
    /\ answered = {}

NoFiles == [q \in {} |-> <<>>]
EmptyTree == [files |-> NoFiles, dirs |-> {UploadFolder}]
\* the upload folder holding one older file named dup.txt
OldTree == [files |-> (os_path_join(UploadFolder, DupTxt) :> <<"o", "l", "d">>),
            dirs |-> {UploadFolder}]

ExampleAllowList == <<"1", "0", ".", "0", ".", "0", ".", "0", "/", "8", ",",
                      "1", "9", "2", ".", "1", "6", "8", ".", "1", ".", "5">>
BogusAllowList == <<"b", "o", "g", "u", "s">>

Init ==
    /\ allowed_ip \in {<<>>, ExampleAllowList, BogusAllowList}
    /\ organize_uploads \in BOOLEAN
    /\ fs \in {EmptyTree, OldTree}
    /\ uploads = 0
    /\ last = [op |-> "none"]
    /\ Idle

Next == \E n \in ReqNames : do_GET(n) \/ do_POST(n)

Spec == Init /\ [][Next]_vars

---------------------------------------------------------------------------
(* AclSpec: restrict_access under every allow-list of up to MaxEntries     *)
(* entries of EntryPool, reached through do_GET                            *)

EntryPool ==
    { <<"1", "0", ".", "0", ".", "0", ".", "0", "/", "8">>,
      <<"1", "9", "2", ".", "1", "6", "8", ".", "1", ".", "5">>,
      <<"1", "9", "2", ".", "1", "6", "8", ".", "1", ".", "0", "/", "2", "4">>,
      <<" ", "1", "9", "2", ".", "1", "6", "8", ".", "1", ".", "6">>,
      <<"b", "o", "g", "u", "s">>,
      <<"1", "0", ".", "0", ".", "0", ".", "0", "/", "3", "3">>,
      <<":", ":", "1">>,
      <<"f", "e", "8", "0", ":", ":", "/", "1", "0">>,
      <<>> }

AclInit ==
    /\ allowed_ip \in {Join(l, <<",">>) : l \in SeqsUpTo(EntryPool, MaxEntries)}
    /\ organize_uploads = FALSE
    /\ fs = EmptyTree
    /\ uploads = 0
    /\ last = [op |-> "none"]
    /\ Idle

AclNext == \E n \in ReqNames : do_GET(n)

AclSpec == AclInit /\ [][AclNext]_vars

---------------------------------------------------------------------------
(* SanSpec: sanitize_filename applied to every string of up to MaxLen      *)
(* characters of SanAlphabet                                               *)

SanAlphabet == {"a", "7", "_", ".", "-", "/", " ", "U+00E9", "U+0663"}

SanInit ==
    /\ allowed_ip = <<>>
    /\ organize_uploads = FALSE
    /\ fs = EmptyTree
    /\ uploads = 0
    /\ last \in {[op |-> "raw", raw |-> x] : x \in SeqsUpTo(SanAlphabet, MaxLen)}
    /\ Idle

Sanitize ==
    /\ last.op = "raw"
    /\ last' = [op |-> "sanitize", raw |-> last.raw,
                normalized |-> normpath(last.raw),
                out |-> sanitize_filename(last.raw)]
    /\ UNCHANGED <<allowed_ip, organize_uploads, fs, uploads, sent, serving, hpc, answered>>

SanSpec == SanInit /\ [][Sanitize]_vars

---------------------------------------------------------------------------
(* ClobberSpec: prevent_clobber in an upload folder holding any subset of  *)
(* a name and its first MaxExisting numbered candidates                    *)

ClobberNames == { <<"a", ".", "t", "x", "t">>, <<".", "b">>, <<".", ".">>, <<"a">> }

Candidates(filename) == {filename} \cup {NumberedName(filename, k) : k \in 1..MaxExisting}

\* the candidates a directory can hold as files: '.' and '..' are never files
Creatable(filename) == Candidates(filename) \ {<<".">>, <<".", ".">>}

TreeOf(names) ==
    [files |-> [q \in {os_path_join(UploadFolder, x) : x \in names} |-> <<"o">>],
     dirs |-> {UploadFolder}]

ClobberInit ==
    /\ allowed_ip = <<>>
    /\ organize_uploads = FALSE
    /\ \E f \in ClobberNames : \E names \in SUBSET Creatable(f) :
          /\ fs = TreeOf(names)
          /\ last = [op |-> "name", filename |-> f]
    /\ uploads = 0
    /\ Idle

Clobber ==
    /\ last.op = "name"
    /\ last' = [op |-> "prevent_clobber", filename |-> last.filename,
                result |-> prevent_clobber(fs, UploadFolder, last.filename)]
    /\ UNCHANGED <<allowed_ip, organize_uploads, fs, uploads, sent, serving, hpc, answered>>

ClobberSpec == ClobberInit /\ [][Clobber]_vars

---------------------------------------------------------------------------
(* ConcSpec: the listener of main() (lines 234 and 251).                   *)
(* socketserver.TCPServer has no threading mix-in: serve_forever accepts a *)
(* connection and runs its handler to completion before it accepts the     *)
(* next one.                                                               *)

ConcInit ==
    /\ allowed_ip = <<>>
    /\ organize_uploads = FALSE
    /\ fs = EmptyTree
    /\ uploads = 0
    /\ last = [op |-> "none"]
    /\ Idle

\* a client connects: the kernel queues the connection for accept()
Connect(k) ==
    /\ sent[k] = "none"
    /\ sent' = [sent EXCEPT ![k] = "connected"]
    /\ UNCHANGED <<allowed_ip, organize_uploads, fs, uploads, last, serving, hpc, answered>>

\* the client sends the request line and the headers, Content-Length among them
SendHeaders(k) ==
    /\ sent[k] = "connected"
    /\ sent' = [sent EXCEPT ![k] = "headers"]
    /\ UNCHANGED <<allowed_ip, organize_uploads, fs, uploads, last, serving, hpc, answered>>

\* the client sends the body it declared
SendBody(k) ==
    /\ sent[k] = "headers"
    /\ sent' = [sent EXCEPT ![k] = "body"]
    /\ UNCHANGED <<allowed_ip, organize_uploads, fs, uploads, last, serving, hpc, answered>>

\* serve_forever: get_request() and process_request(), which in TCPServer
\* calls the handler in the server's own thread
Accept(k) ==
    /\ serving = "nobody"
    /\ hpc = "accept"
    /\ sent[k] # "none"
    /\ k \notin answered
    /\ serving' = k
    /\ hpc' = "read_headers"
    /\ UNCHANGED <<allowed_ip, organize_uploads, fs, uploads, last, sent, answered>>

\* handle_one_request: blocks until the request line and headers are there
ReadHeaders ==
    /\ hpc = "read_headers"
    /\ sent[serving] \in {"headers", "body"}
    /\ hpc' = "read_body"
    /\ UNCHANGED <<allowed_ip, organize_uploads, fs, uploads, last, sent, serving, answered>>

\* do_POST line 93: self.rfile.read(content_length) blocks until the body is there
ReadBody ==
    /\ hpc = "read_body"
    /\ sent[serving] = "body"
    /\ hpc' = "respond"
    /\ UNCHANGED <<allowed_ip, organize_uploads, fs, uploads, last, sent, serving, answered>>

\* the rest of do_POST: the response is sent and the handler returns
Respond ==
    /\ hpc = "respond"
    /\ answered' = answered \cup {serving}
    /\ serving' = "nobody"
    /\ hpc' = "accept"
    /\ UNCHANGED <<allowed_ip, organize_uploads, fs, uploads, last, sent>>

ServerStep == (\E k \in Conns : Accept(k)) \/ ReadHeaders \/ ReadBody \/ Respond

ConcNext ==
    \/ \E k \in Conns : Connect(k)
    \/ \E k \in Conns : SendHeaders(k)
    \/ \E k \in Conns : SendBody(k)
    \/ \E k \in Conns : Accept(k)
    \/ ReadHeaders
    \/ ReadBody
    \/ Respond

ConcSpec == ConcInit /\ [][ConcNext]_vars

\* the server thread keeps running; no client is obliged to send anything
FairConcSpec == ConcSpec /\ WF_vars(ServerStep)

---------------------------------------------------------------------------
(* The properties                                                          *)

\* an allow-list entry matches the client as the specification words it: CIDR
\* containment for an entry with '/', equality for one without; an entry that
\* cannot be interpreted matches nothing
EntryMatches(client, entry) ==
    IF Contains(entry, <<"/">>)
    THEN ip_network(entry).version # 0 /\ InNetwork(ip_address(client), ip_network(entry))
    ELSE ip_address(entry).version # 0 /\ ip_address(client) = ip_address(entry)

SomeEntryMatches(client, allowed) ==
    \E i \in 1..Len(Split(allowed, <<",">>)) :
        EntryMatches(client, strip(Split(allowed, <<",">>)[i]))

IsRequest == last.op \in {"GET", "POST"}
LastReq == Requests[last.req]
Succeeded == last.op = "POST" /\ last.statuses = <<200>>

\* C1: a GET or POST to '/' from a client that matches no entry of a non-empty
\* allow-list is answered with status 403 and nothing else: the body is not
\* read, the upload tree is not touched, no 200 or 400 is sent.
C1_DeniedClientGetsOnly403 ==
    (/\ IsRequest
     /\ LastReq.path = Root
     /\ allowed_ip # <<>>
     /\ ~ SomeEntryMatches(LastReq.client, allowed_ip))
    => (/\ last.statuses = <<403>>
        /\ last.raised = "none"
        /\ ~ last.body_read
        /\ ~ last.fs_touched
        /\ last.saved = <<>>)

\* C2: restrict_access returns True when the allow-list is empty or absent,
\* and otherwise True exactly when some entry matches the client and False
\* when none does; an entry that does not match or cannot be interpreted is
\* skipped without raising.
C2_AccessIsExactlyAMatch ==
    (IsRequest /\ LastReq.path = Root)
    => (/\ last.access \in {"True", "False"}
        /\ last.raised # "ValueError"
        /\ (last.access = "True")
              <=> (allowed_ip = <<>> \/ SomeEntryMatches(LastReq.client, allowed_ip)))

\* C3: for a well-formed multipart body with one file part named F holding the
\* bytes C, do_POST extracts the filename F and writes exactly the bytes C,
\* without the CRLF that precedes the next boundary marker.
C3_SavedBytesAreTheContent ==
    (Succeeded /\ LastReq.well_formed)
    => (/\ last.filename = LastReq.F
        /\ fs.files[normpath(last.saved)] = LastReq.C)

\* C4: a POST to '/' from an authorized client whose content-type check,
\* boundary or multipart extraction, filename extraction, directory creation
\* or file write fails is answered with status 400, and no exception leaves
\* do_POST.
C4_FailedUploadIsAnswered400 ==
    (/\ last.op = "POST"
     /\ LastReq.path = Root
     /\ last.access = "True"
     /\ ~ Succeeded)
    => (last.statuses = <<400>> /\ last.raised = "none")

\* C5: sanitize_filename returns a name without a path separator that is not
\* a traversal segment, so that joined onto the upload folder it names a path
\* directly inside that folder.
C5_SanitizedNameStaysInside ==
    last.op = "sanitize"
    => (/\ ~ Contains(last.out, <<"/">>)
        /\ last.out \notin {<<>>, <<".">>, <<".", ".">>}
        /\ normpath(os_path_join(UploadFolder, last.out)) = UploadFolder \o <<"/">> \o last.out)

DupIn(folder) == os_path_join(folder, DupTxt)
Dup1In(folder) == os_path_join(folder, <<"d", "u", "p", "_", "1", ".", "t", "x", "t">>)

Candidate(filename, k) == IF k = 0 THEN filename ELSE NumberedName(filename, k)
ATxtNumbered(k) ==
    IF k = 0 THEN <<"a", ".", "t", "x", "t">>
    ELSE <<"a", "_">> \o ToDecimal(k) \o <<".", "t", "x", "t">>

\* C7: prevent_clobber returns a path that does not exist when it is called,
\* the first non-existing one in the order filename, base_1.ext, base_2.ext,
\* ...; with a.txt, a_1.txt, ..., a_(N-1).txt present and a_N.txt absent it
\* returns a_N.txt.
C7_FirstFreeCandidate ==
    last.op = "prevent_clobber"
    => (/\ ~ os_path_exists(fs, last.result)
        /\ \E k \in 0..(MaxExisting + 1) :
              /\ last.result = os_path_join(UploadFolder, Candidate(last.filename, k))
              /\ \A j \in 0..(k - 1) :
                    os_path_exists(fs, os_path_join(UploadFolder, Candidate(last.filename, j)))
        /\ \A n \in 1..(MaxExisting + 1) :
              (/\ last.filename = ATxtNumbered(0)
               /\ \A j \in 0..(n - 1) : os_path_join(UploadFolder, ATxtNumbered(j)) \in DOMAIN fs.files
               /\ os_path_join(UploadFolder, ATxtNumbered(n)) \notin DOMAIN fs.files)
              => last.result = os_path_join(UploadFolder, ATxtNumbered(n)))

\* a.txt and a_1.txt to a_9.txt are there: the answer is a_10.txt
C7_TenthCandidate ==
    /\ last.op = "prevent_clobber"
    /\ last.filename = <<"a", ".", "t", "x", "t">>
    /\ \A j \in 0..9 : os_path_join(UploadFolder, ATxtNumbered(j)) \in DOMAIN fs.files
    /\ last.result = UploadFolder \o <<"/", "a", "_", "1", "0", ".", "t", "x", "t">>

\* C8: sanitize_filename is idempotent.
C8_SanitizeIsIdempotent ==
    last.op = "sanitize" => sanitize_filename(last.out) = last.out

\* a name that both steps of sanitize_filename change
C8_TraversalSanitized ==
    /\ last.op = "sanitize"
    /\ last.raw = <<"a", "/", "/", " ">>
    /\ last.normalized = <<"a", "/", " ">>
    /\ last.out = <<"a", "_", "_">>

AsciiWhitelist == AsciiLetters \cup AsciiDigits \cup {"_", ".", "-"}
WordWhitelist == AsciiWhitelist \cup NonAsciiWord

\* C9 as claimed: every character of the output of sanitize_filename is an
\* ASCII letter, an ASCII digit, an underscore, a period or a hyphen.
C9_OutputIsAsciiOnly ==
    last.op = "sanitize" => \A i \in 1..Len(last.out) : last.out[i] \in AsciiWhitelist

\* C9 as amended: every character of the output is a word character (a
\* letter or a digit of any script, or the underscore), a period or a hyphen;
\* the output is the normalized name with each character outside that set
\* replaced by an underscore and every other character, non-ASCII letters
\* and digits among them, kept; there is an output for every input.
C9_OutputIsWordDotHyphen ==
    last.op = "sanitize"
    => (/\ Len(last.out) = Len(last.normalized)
        /\ Len(last.out) >= 1
        /\ \A i \in 1..Len(last.out) :
              /\ last.out[i] \in WordWhitelist
              /\ last.normalized[i] \in WordWhitelist => last.out[i] = last.normalized[i]
              /\ last.normalized[i] \notin WordWhitelist => last.out[i] = "_")

\* a non-ASCII letter and digit kept, a space replaced
C9_NonAsciiKept ==
    /\ last.op = "sanitize"
    /\ last.raw = <<"U+00E9", " ", "U+0663">>
    /\ last.out = <<"U+00E9", "_", "U+0663">>

\* C10: a connection that has sent its whole request is answered, whatever
\* the other connections do: a client that stops sending stalls only its own
\* handler.
C10_CompleteRequestIsAnswered ==
    \A k \in Conns : (sent[k] = "body") ~> (k \in answered)

=============================================================================
